---- MODULE Spec2Model ----
(***************************************************************************)
(* Receipt-to-inventory pipeline of kyokki (backend/app).                  *)
(*                                                                         *)
(* The database holds one receipt row and the inventory_item table.  Every *)
(* HTTP request owns a session (db/session.py get_db): it reads rows into  *)
(* session copies, changes them, and a commit writes the changed           *)
(* attributes back in one transaction.  A request is a chain of awaits;    *)
(* one action of the model is the code between two awaits, so requests     *)
(* interleave exactly at the awaits.                                       *)
(*                                                                         *)
(* Session objects keep their attribute values across a commit, as the     *)
(* sessions of tests/conftest.py are configured.  Quantities are counted   *)
(* in the unit of the Numeric(10, 2) column (hundredths), dates in days.   *)
(***************************************************************************)
EXTENDS Integers, Sequences, FiniteSets, TLC

\* ------------------------------------------------------------------ bounds
MaxProducts == 2    \* products in one LLM extraction
MaxItems == 2       \* items in one confirm request
MaxRows == 2        \* rows of the inventory_item table
MaxQty == 4         \* largest quantity, in column units
MaxPad == 1         \* spaces added at one place of a name
MaxPath == 4        \* length of a file path, in names and separators
MaxCatalog == 3     \* products in the catalog match_all ranks

\* ------------------------------------------------------------- the domain
Null == "null"

ProcReqs == {"p1", "p2"}        \* concurrent POST /receipts/{id}/process
ConfReqs == {"f1"}              \* POST /receipts/{id}/confirm
ConsReqs == {"c1", "c2"}        \* concurrent POST /inventory/{id}/consume
UpdReqs == {"u1"}               \* PATCH /inventory/{id}

TheReceipt == "r1"
MissingReceipt == "r0"
ReceiptIds == {TheReceipt, MissingReceipt}

OcrTexts == {"textA", "textB"}
CatalogNames == {"milk"}
ProductNames == {"milk", "zzz"}
Chains == {Null, "K-Market"}

ProductIds == {"pA", "pB"}
MissingProduct == "pX"
Today == 10

ReceiptStatuses == {"uploaded", "processing", "completed", "failed", "confirmed"}
ItemStatuses == {"sealed", "opened", "partial", "empty", "discarded"}
NoDate == 0

\* ProductMaster.default_shelf_life_days of the catalog's products
DefaultShelfLifeDays(p) == IF p = "pA" THEN 7 ELSE 3

SeqsUpTo(S, n) == UNION {[1..k -> S] : k \in 0..n}

\* what the structured-output model can answer: ReceiptExtraction
Extractions == [chain : Chains, products : SeqsUpTo(ProductNames, MaxProducts)]

VARIABLES
    receipt,      \* the committed receipt row
    inventory,    \* the committed inventory_item rows, in insertion order
    proc,         \* the process requests
    conf,         \* the confirm requests
    cons,         \* the consume requests
    upd,          \* the update (PATCH) requests
    consumed,     \* quantity the successful consume calls have taken since the
                  \* item's quantity was last set by a creation or an update
    crt,          \* the create request
    del,          \* the delete request
    ws,           \* the WebSocket connection manager and its broadcast
    svc           \* a call of a service function: its arguments and its result

ledger == <<cons, upd, consumed, crt, del, ws, svc>>

vars == <<receipt, inventory, proc, conf, cons, upd, consumed, crt, del, ws, svc>>

\* ------------------------------------------------------------ the session

\* Session.commit: the UPDATE carries the attributes whose value differs from
\* the one the session loaded; the others keep what the row holds.
Flush(row, loaded, sess) ==
    [f \in DOMAIN row |-> IF f \in DOMAIN sess /\ sess[f] # loaded[f]
                          THEN sess[f] ELSE row[f]]

\* ------------------------------------------------------------ the receipt

\* crud/receipt.py create_receipt: the row after upload
NewReceipt(chain) ==
    [processing_status |-> "uploaded",
     ocr_raw_text |-> Null,
     ocr_structured |-> <<>>,
     items_extracted |-> 0,
     items_matched |-> 0,
     store_chain |-> chain]

NoResponse == [code |-> 0, success |-> FALSE, items_extracted |-> 0,
               items_matched |-> 0, items_created |-> 0, error |-> Null]

IdleProc ==
    [pc |-> "idle", rid |-> TheReceipt, sess |-> NewReceipt(Null),
     ocr_text |-> Null, content |-> <<>>, extraction |-> <<>>, i |-> 0,
     matched |-> 0, calls |-> <<>>, raised |-> FALSE, resp |-> NoResponse]

\* One entry of a run's call log: the operation, what it was called with and
\* what came back ("raise" when it raised).
Call(op, arg, res) == [op |-> op, arg |-> arg, res |-> res]

\* MatchingService.match_product with the default min_score, on the catalog:
\* TRUE when it returns a MatchResult, FALSE when it returns None.
MatchProduct(name) == name \in CatalogNames

\* broadcast_helpers.py _build_message: the type, the entity and what
\* happened to it (the status of a receipt, the action on an item)
BuildMessage(type, entity, what) == [type |-> type, entity_id |-> entity, what |-> what]

\* broadcast_helpers.py broadcast_receipt_status
ReceiptStatusMessage(rid, status) == BuildMessage("receipt_status", rid, status)

\* broadcast_helpers.py broadcast_inventory_update
InventoryUpdateMessage(item, action) == BuildMessage("inventory_update", item, action)

\* what may happen inside publish_message: the message reaches Redis, the
\* client cannot be created, the message cannot be encoded, or the publish
\* call raises
PublishOutcomes == {"published", "no_client", "not_encodable", "publish_raised"}
Published == {"published"}

\* publish_message, had it let the exception out
PublishMessageRaises(message, outcome) ==
    [call |-> Call("publish", message, outcome), raised |-> outcome # "published"]

\* broadcast_helpers.py publish_message: everything is inside try / except
\* Exception, which logs; the caller sees a normal return
PublishMessage(message, outcome) ==
    [call |-> Call("publish", message, outcome), raised |-> FALSE]

\* POST /inventory and DELETE /inventory/{id} have one request each
IdleCrt == [pc |-> "idle", calls |-> <<>>, resp |-> NoResponse]

\* no service call is under way
NoCall == [op |-> "none", args |-> <<>>, result |-> <<>>]

\* the caller has its result
Return ==
    /\ svc # NoCall
    /\ svc' = NoCall
    /\ UNCHANGED <<receipt, inventory, proc, conf, cons, upd, consumed, crt, del, ws>>

\* -------------------------------------------------------- MatchingService

\* A name is a sequence of characters.  The characters are a letter in its
\* two cases, "i" and "I", the dotless i, whose upper case is also "I", and
\* the space.
Chars == {"i", "I", "i_dotless", " "}

\* str.lower and str.upper, character by character
Lower(ch) == IF ch = "I" THEN "i" ELSE ch
Upper(ch) == IF ch \in {"i", "i_dotless"} THEN "I" ELSE ch
LowerStr(str) == [k \in 1..Len(str) |-> Lower(str[k])]

IsSpace(ch) == ch = " "

\* str.strip
RECURSIVE LStrip(_)
LStrip(str) ==
    IF str # <<>> /\ IsSpace(Head(str)) THEN LStrip(Tail(str)) ELSE str

RECURSIVE RStrip(_)
RStrip(str) ==
    IF str # <<>> /\ IsSpace(str[Len(str)])
    THEN RStrip(SubSeq(str, 1, Len(str) - 1)) ELSE str

Strip(str) == RStrip(LStrip(str))

\* str with every run of spaces made one space, and none at the start when
\* afterSpace
RECURSIVE Squeeze(_, _)
Squeeze(str, afterSpace) ==
    IF str = <<>> THEN <<>>
    ELSE IF IsSpace(Head(str))
    THEN (IF afterSpace THEN <<>> ELSE <<" ">>) \o Squeeze(Tail(str), TRUE)
    ELSE <<Head(str)>> \o Squeeze(Tail(str), FALSE)

\* the normal form of a name, had its case been kept
NormalizedKeepsCase(str) == RStrip(Squeeze(str, TRUE))

\* matching_service.py 85, 87: " ".join(name.lower().split())
Normalized(str) == RStrip(Squeeze(LowerStr(str), TRUE))

\* the tier of a score, had LOW been kept for the scores from 50 up
CalculateConfidenceFrom50(score) ==
    IF score >= 100 THEN "exact"
    ELSE IF score >= 75 THEN "high"
    ELSE IF score >= 60 THEN "medium"
    ELSE IF score >= 50 THEN "low"
    ELSE "none"

\* matching_service.py 205-221 _calculate_confidence, with the thresholds
\* of lines 42-45
CalculateConfidence(score) ==
    IF score >= 100 THEN "exact"
    ELSE IF score >= 75 THEN "high"
    ELSE IF score >= 60 THEN "medium"
    ELSE "low"

\* the scores RapidFuzz may give, standing for the floats around the
\* thresholds
Scores == {0, 49, 50, 59, 60, 74, 75, 99, 100}

\* the canonical names of a catalog
NamesOf(catalog) == {catalog[k] : k \in 1..Len(catalog)}

\* fuzz.WRatio of the query with each canonical name: a table of scores, 100
\* for the query itself and 0 for an empty name
WRatios(query, catalog, scoreset) ==
    {w \in [NamesOf(catalog) -> scoreset \cup {0, 100}] :
        \A n \in NamesOf(catalog) :
            (n = query => w[n] = 100) /\ (n = <<>> => w[n] = 0)}

\* matching_service.py 100: product_map keeps, of the products of one name,
\* the last
ProductMap(catalog, name) ==
    CHOOSE k \in 1..Len(catalog) :
        catalog[k] = name /\ \A j \in (k + 1)..Len(catalog) : catalog[j] # name

NoMatch == [found |-> FALSE, product |-> 0, score |-> 0, confidence |-> "none"]

MatchResult(product, score, confidence) ==
    [found |-> TRUE, product |-> product, score |-> score, confidence |-> confidence]

\* process.extract over the positions left: the best first, the earlier of
\* two equal scores first, at most limit of them
RECURSIVE Extract(_, _, _, _)
Extract(catalog, w, left, limit) ==
    IF left = {} \/ limit <= 0 THEN <<>>
    ELSE LET k == CHOOSE k \in left :
                    \A j \in left :
                        \/ w[catalog[j]] < w[catalog[k]]
                        \/ (w[catalog[j]] = w[catalog[k]] /\ k <= j)
         IN <<k>> \o Extract(catalog, w, left \ {k}, limit - 1)

\* the positions whose score reaches score_cutoff
AboveCutoff(catalog, w, min_score) ==
    {k \in 1..Len(catalog) : w[catalog[k]] >= min_score}

\* matching_service.py 55-130 match_product, w being the WRatio of the
\* stripped name with each canonical name
MatchProductResult(catalog, product_name, min_score, w) ==
    LET name == Strip(product_name)
        same == {k \in 1..Len(catalog) : Normalized(catalog[k]) = Normalized(name)}
        best == Extract(catalog, w, AboveCutoff(catalog, w, min_score), 1)
    IN IF name = <<>> \/ catalog = <<>> THEN NoMatch
       ELSE IF same # {}
       THEN MatchResult(CHOOSE k \in same : \A j \in same : k <= j, 100, "exact")
       ELSE IF best = <<>> THEN NoMatch
       ELSE MatchResult(ProductMap(catalog, catalog[best[1]]),
                        w[catalog[best[1]]],
                        CalculateConfidence(w[catalog[best[1]]]))

\* matching_service.py 132-192 match_all
MatchAllResult(catalog, product_name, limit, min_score, w) ==
    LET name == Strip(product_name)
        results == Extract(catalog, w, AboveCutoff(catalog, w, min_score), limit)
    IN IF name = <<>> \/ catalog = <<>> THEN <<>>
       ELSE [r \in 1..Len(results) |->
               MatchResult(ProductMap(catalog, catalog[results[r]]),
                           w[catalog[results[r]]],
                           CalculateConfidence(w[catalog[results[r]]]))]

\* a call of match_product on a catalog
CallMatchProduct(catalogs, queries, mins, scoreset) ==
    /\ svc = NoCall
    /\ \E catalog \in catalogs, q \in queries, m \in mins :
         \E w \in WRatios(Strip(q), catalog, scoreset) :
            svc' = [op |-> "match_product",
                    args |-> [catalog |-> catalog, product_name |-> q,
                              limit |-> 1, min_score |-> m, wratio |-> w],
                    result |-> <<MatchProductResult(catalog, q, m, w)>>]
    /\ UNCHANGED <<receipt, inventory, proc, conf, cons, upd, consumed, crt, del, ws>>

\* a call of match_all on a catalog
CallMatchAll(catalogs, queries, limits, mins, scoreset) ==
    /\ svc = NoCall
    /\ \E catalog \in catalogs, q \in queries, l \in limits, m \in mins :
         \E w \in WRatios(Strip(q), catalog, scoreset) :
            svc' = [op |-> "match_all",
                    args |-> [catalog |-> catalog, product_name |-> q,
                              limit |-> l, min_score |-> m, wratio |-> w],
                    result |-> MatchAllResult(catalog, q, l, m, w)]
    /\ UNCHANGED <<receipt, inventory, proc, conf, cons, upd, consumed, crt, del, ws>>

\* ------------------------------------------------------------ ocr_service
\* A file path is a sequence of separators "/", dots "." and pieces of
\* name, each piece a run of characters other than the two.
Pieces == {"pdf", "PDF", "jpg", "JPEG", "png", "WebP", "txt", "x"}
PathChars == Pieces \cup {".", "/"}

\* str.lower of a piece
LowerPiece(t) ==
    CASE t = "PDF" -> "pdf"
      [] t = "JPEG" -> "jpeg"
      [] t = "WebP" -> "webp"
      [] OTHER -> t

\* pathlib: the last component of a path, the empty ones and the "." ones
\* dropped
RECURSIVE FileName(_)
FileName(path) ==
    LET seps == {k \in 1..Len(path) : path[k] = "/"}
        cut == IF seps = {} THEN 0 ELSE CHOOSE k \in seps : \A j \in seps : j <= k
        last == SubSeq(path, cut + 1, Len(path))
    IN IF path = <<>> THEN <<>>
       ELSE IF last \in {<<>>, <<".">>} /\ cut > 0
       THEN FileName(SubSeq(path, 1, cut - 1))
       ELSE IF last = <<".">> THEN <<>>
       ELSE last

\* pathlib Path.suffix: the name from its last dot on, when that dot is
\* neither the first nor the last character of the name
Suffix(name) ==
    LET dots == {k \in 1..Len(name) : name[k] = "."}
        i == IF dots = {} THEN 0 ELSE CHOOSE k \in dots : \A j \in dots : j <= k
    IN IF 1 < i /\ i < Len(name) THEN SubSeq(name, i, Len(name)) ELSE <<>>

ImageSuffixes == {<<".", "jpg">>, <<".", "jpeg">>, <<".", "png">>, <<".", "webp">>}

\* the route of a suffix, had it been compared as written
RouteAsWritten(suffix) ==
    IF suffix = <<".", "pdf">> THEN "_extract_from_pdf"
    ELSE IF suffix \in ImageSuffixes THEN "_extract_from_image"
    ELSE "ValueError"

\* ocr_service.py 35-42: the route of a suffix
Route(suffix) ==
    LET lower == [k \in 1..Len(suffix) |-> LowerPiece(suffix[k])]
    IN IF lower = <<".", "pdf">> THEN "_extract_from_pdf"
       ELSE IF lower \in ImageSuffixes THEN "_extract_from_image"
       ELSE "ValueError"

\* what a backend does with the file: it returns its text or raises
BackendOutcomes == {"text", "raised"}

\* ocr_service.py 16-42 extract_text_from_receipt
ExtractTextFromReceipt(file_path, outcome) ==
    LET route == Route(Suffix(FileName(file_path)))
    IN IF route = "ValueError"
       THEN [calls |-> <<>>, raised |-> "ValueError", text |-> "null"]
       ELSE [calls |-> <<route>>,
             raised |-> IF outcome = "raised" THEN "backend" ELSE "none",
             text |-> IF outcome = "raised" THEN "null" ELSE "text"]

\* a call of extract_text_from_receipt
CallExtractText(paths, outcomes) ==
    /\ svc = NoCall
    /\ \E file_path \in paths, outcome \in outcomes :
         svc' = [op |-> "extract_text_from_receipt",
                 args |-> [file_path |-> file_path],
                 result |-> <<ExtractTextFromReceipt(file_path, outcome)>>]
    /\ UNCHANGED <<receipt, inventory, proc, conf, cons, upd, consumed, crt, del, ws>>

\* ----------------------------------------------------------------- upload

\* endpoints/receipts.py 28-34
AllowedContentTypes ==
    {"image/jpeg", "image/jpg", "image/png", "image/webp", "application/pdf"}

\* the content types a client may declare
ContentTypes == AllowedContentTypes \cup {"text/plain"}

\* crud/receipt.py 83-92: data/receipts/<uuid><suffix of the client's file name>
StoredPath(filename) ==
    <<"data", "/", "receipts", "/", "uuid">> \o Suffix(FileName(filename))

\* endpoints/receipts.py 59-78 upload_receipt and crud/receipt.py
\* create_receipt: 400 for a content type that is not allowed, else the file
\* is stored under the name the client gave, "receipt" when it gave none
UploadReceipt(content_type, filename) ==
    IF content_type \notin AllowedContentTypes
    THEN [code |-> 400, image_path |-> <<>>]
    ELSE [code |-> 201,
          image_path |-> StoredPath(IF filename = <<>> THEN <<"receipt">>
                                    ELSE filename)]

\* a call of the upload endpoint
CallUpload(content_types, filenames) ==
    /\ svc = NoCall
    /\ \E content_type \in content_types, filename \in filenames :
         svc' = [op |-> "upload_receipt",
                 args |-> [content_type |-> content_type, filename |-> filename],
                 result |-> <<UploadReceipt(content_type, filename)>>]
    /\ UNCHANGED <<receipt, inventory, proc, conf, cons, upd, consumed, crt, del, ws>>

\* ------------------------------------------------------ ConnectionManager

\* the WebSocket clients
Connections == {"w1", "w2", "w3"}

\* services/websockets.py 14-15: the manager starts with no connection.
\* active is active_connections; of a broadcast, i is the position of its
\* loop, disconnected_clients its local list, delivered the number of times
\* each connection was sent the message, raised whether it raised, stayed the
\* connections registered since the broadcast began.
NoConnections ==
    [active |-> <<>>, pc |-> "idle", i |-> 0, disconnected_clients |-> <<>>,
     delivered |-> [w \in Connections |-> 0], raised |-> FALSE, stayed |-> {}]

\* list.remove: the sequence without the first occurrence of w
RemoveFirst(seq, w) ==
    IF \E k \in 1..Len(seq) : seq[k] = w
    THEN LET k == CHOOSE k \in 1..Len(seq) :
                    seq[k] = w /\ \A j \in 1..(k - 1) : seq[j] # w
         IN [j \in 1..(Len(seq) - 1) |-> IF j < k THEN seq[j] ELSE seq[j + 1]]
    ELSE seq

\* services/websockets.py 27-35 disconnect, for each of a list of clients
RECURSIVE DisconnectAll(_, _)
DisconnectAll(active, clients) ==
    IF clients = <<>> THEN active
    ELSE DisconnectAll(RemoveFirst(active, Head(clients)), Tail(clients))

\* services/websockets.py 17-25 connect: accept, append.  pcs are the
\* positions of the broadcast at which clients arrive.
Connect(w, pcs) ==
    /\ ws.pc \in pcs
    /\ \A k \in 1..Len(ws.active) : ws.active[k] # w
    /\ ws' = [ws EXCEPT !.active = Append(@, w)]
    /\ UNCHANGED <<receipt, inventory, proc, conf, cons, upd, consumed, crt, del, svc>>

\* endpoints/ws.py 13-14: the client went away; services/websockets.py 27-35
Disconnect(w, pcs) ==
    /\ ws.pc \in pcs
    /\ \E k \in 1..Len(ws.active) : ws.active[k] = w
    /\ ws' = [ws EXCEPT !.active = RemoveFirst(@, w), !.stayed = @ \ {w}]
    /\ UNCHANGED <<receipt, inventory, proc, conf, cons, upd, consumed, crt, del, svc>>

\* services/websockets.py 45: a broadcast begins
BroadcastStart ==
    /\ ws.pc \in {"idle", "done"}
    /\ ws' = [NoConnections EXCEPT
                !.active = ws.active, !.pc = "sending", !.i = 1,
                !.stayed = {ws.active[k] : k \in 1..Len(ws.active)}]
    /\ UNCHANGED <<receipt, inventory, proc, conf, cons, upd, consumed, crt, del, svc>>

\* services/websockets.py 47-58: one iteration of the loop; send_text
\* returns, or raises and the connection is noted
BroadcastSend ==
    /\ ws.pc = "sending"
    /\ ws.i <= Len(ws.active)
    /\ LET w == ws.active[ws.i]
       IN \/ ws' = [ws EXCEPT !.delivered[w] = @ + 1, !.i = @ + 1]
          \/ ws' = [ws EXCEPT !.disconnected_clients = Append(@, w), !.i = @ + 1]
    /\ UNCHANGED <<receipt, inventory, proc, conf, cons, upd, consumed, crt, del, svc>>

\* the end of a broadcast, had it left the noted connections registered
BroadcastEndKeepsAll ==
    /\ ws.pc = "sending"
    /\ ws.i > Len(ws.active)
    /\ ws' = [ws EXCEPT !.pc = "done"]
    /\ UNCHANGED <<receipt, inventory, proc, conf, cons, upd, consumed, crt, del, svc>>

\* services/websockets.py 60-70: the loop is over, the noted connections are
\* disconnected
BroadcastEnd ==
    /\ ws.pc = "sending"
    /\ ws.i > Len(ws.active)
    /\ ws' = [ws EXCEPT !.pc = "done",
                        !.active = DisconnectAll(@, ws.disconnected_clients)]
    /\ UNCHANGED <<receipt, inventory, proc, conf, cons, upd, consumed, crt, del, svc>>

\* ------------------------------------------------ POST /receipts/{id}/process

\* endpoints/receipts.py process_receipt: get_receipt, 404 when missing
ProcStart(r) ==
    /\ proc[r].pc \in {"idle", "done", "cancelled"}
    /\ \E rid \in ReceiptIds :
         IF rid = TheReceipt
         THEN proc' = [proc EXCEPT ![r] =
                         [IdleProc EXCEPT !.pc = "begin", !.rid = rid,
                                          !.sess = receipt]]
         ELSE proc' = [proc EXCEPT ![r] =
                         [IdleProc EXCEPT !.pc = "done", !.rid = rid,
                                          !.resp = [NoResponse EXCEPT
                                                      !.code = 404]]]
    /\ UNCHANGED <<receipt, inventory, conf, ledger>>

\* mutant: the status is set but its commit is left to the end of the run
ProcCommitProcessingDeferred(r) ==
    /\ proc[r].pc = "begin"
    /\ proc' = [proc EXCEPT ![r].pc = "ocr"]
    /\ UNCHANGED <<receipt, inventory, conf, ledger>>

\* receipt_processing.py 62-63: status := processing, commit
ProcCommitProcessing(r) ==
    /\ proc[r].pc = "begin"
    /\ LET new == [proc[r].sess EXCEPT !.processing_status = "processing"]
       IN /\ receipt' = Flush(receipt, proc[r].sess, new)
          /\ proc' = [proc EXCEPT ![r].sess = new,
                                  ![r].pc = "ocr",
                                  ![r].calls = Append(@, Call("commit", "processing", "ok"))]
    /\ UNCHANGED <<inventory, conf, ledger>>

\* receipt_processing.py 68: the OCR call returns text or raises
ProcOcr(r, texts) ==
    /\ proc[r].pc = "ocr"
    /\ \/ \E t \in texts :
            proc' = [proc EXCEPT ![r].ocr_text = t,
                                 ![r].pc = "llm",
                                 ![r].calls = Append(@, Call("ocr", Null, t))]
       \/ proc' = [proc EXCEPT ![r].pc = "except",
                               ![r].calls = Append(@, Call("ocr", Null, "raise"))]
    /\ UNCHANGED <<receipt, inventory, conf, ledger>>

\* receipt_processing.py 73: the LLM extraction, called with the OCR text,
\* returns a ReceiptExtraction or raises
ProcLlm(r, answers) ==
    /\ proc[r].pc = "llm"
    /\ \/ \E e \in answers :
            proc' = [proc EXCEPT ![r].extraction = <<e>>,
                                 ![r].i = 1,
                                 ![r].matched = 0,
                                 ![r].pc = "match",
                                 ![r].calls = Append(@, Call("llm", proc[r].ocr_text, "ok"))]
       \/ proc' = [proc EXCEPT ![r].pc = "except",
                               ![r].calls = Append(@, Call("llm", proc[r].ocr_text, "raise"))]
    /\ UNCHANGED <<receipt, inventory, conf, ledger>>

\* The content of an LLM response: text that is not JSON, or a JSON object
\* with the deprecated flat store_chain, the nested store.chain and the
\* products, each with its name (Null when the field is missing) and its
\* quantity.
NotJson == [json |-> FALSE, store_chain |-> Null, chain |-> Null, products |-> <<>>]

RawProducts(names, quantities) == [name : names, quantity : quantities]

JsonContents(flat, nested, products) ==
    [json : {TRUE}, store_chain : flat, chain : nested, products : products]

\* parsers/base.py 22, 24: name is required, quantity has ge=0
ValidProduct(p) == p.name # Null /\ p.quantity >= 0

\* the validation, had it dropped the products it cannot accept
ModelValidateJsonDropsInvalid(content) ==
    IF ~content.json THEN <<>>
    ELSE <<[chain |-> content.chain,
            store_chain |-> content.store_chain,
            products |-> LET valid == SelectSeq(content.products, ValidProduct)
                         IN [k \in 1..Len(valid) |-> valid[k].name]]>>

\* llm_extractor.py 103 ReceiptExtraction.model_validate_json: the
\* extraction, or nothing when it raises
ModelValidateJson(content) ==
    IF ~content.json THEN <<>>
    ELSE IF \E k \in 1..Len(content.products) : ~ValidProduct(content.products[k])
    THEN <<>>
    ELSE <<[chain |-> content.chain,
            store_chain |-> content.store_chain,
            products |-> [k \in 1..Len(content.products) |->
                            content.products[k].name]]>>

\* receipt_processing.py 73 and llm_extractor.py 92-117: the request fails,
\* or the response comes, its content is validated, and the extraction is
\* returned or the validation error raised
ProcLlmContent(r, contents) ==
    /\ proc[r].pc = "llm"
    /\ \/ \E c \in contents :
            LET v == ModelValidateJson(c)
            IN IF v # <<>>
               THEN proc' = [proc EXCEPT
                               ![r].content = <<c>>,
                               ![r].extraction = v,
                               ![r].i = 1,
                               ![r].matched = 0,
                               ![r].pc = "match",
                               ![r].calls = Append(@, Call("llm", proc[r].ocr_text, "ok"))]
               ELSE proc' = [proc EXCEPT
                               ![r].content = <<c>>,
                               ![r].pc = "except",
                               ![r].calls = Append(@, Call("llm", proc[r].ocr_text, "raise"))]
       \/ proc' = [proc EXCEPT ![r].pc = "except",
                               ![r].calls = Append(@, Call("llm", proc[r].ocr_text, "raise"))]
    /\ UNCHANGED <<receipt, inventory, conf, ledger>>

\* mutant: the counter is advanced for every product, matched or not
ProcMatchCountsAll(r) ==
    /\ proc[r].pc = "match"
    /\ proc[r].i <= Len(proc[r].extraction[1].products)
    /\ LET name == proc[r].extraction[1].products[proc[r].i]
       IN \/ proc' = [proc EXCEPT
                        ![r].matched = @ + 1,
                        ![r].i = @ + 1,
                        ![r].calls = Append(@, Call("match", name,
                                       IF MatchProduct(name) THEN "match" ELSE "none"))]
          \/ proc' = [proc EXCEPT
                        ![r].pc = "except",
                        ![r].calls = Append(@, Call("match", name, "raise"))]
    /\ UNCHANGED <<receipt, inventory, conf, ledger>>

\* receipt_processing.py 81-97: one iteration of the matching loop; the call
\* returns a match, returns None, or raises (the catalog query failed)
ProcMatch(r) ==
    /\ proc[r].pc = "match"
    /\ proc[r].i <= Len(proc[r].extraction[1].products)
    /\ LET name == proc[r].extraction[1].products[proc[r].i]
       IN \/ proc' = [proc EXCEPT
                        ![r].matched = IF MatchProduct(name) THEN @ + 1 ELSE @,
                        ![r].i = @ + 1,
                        ![r].calls = Append(@, Call("match", name,
                                       IF MatchProduct(name) THEN "match" ELSE "none"))]
          \/ proc' = [proc EXCEPT
                        ![r].pc = "except",
                        ![r].calls = Append(@, Call("match", name, "raise"))]
    /\ UNCHANGED <<receipt, inventory, conf, ledger>>

\* the chain of the receipt, had the detected one always been written
BackfilledChainAlways(e, s) ==
    IF e.chain # Null THEN e.chain ELSE s.store_chain

\* receipt_processing.py 110-112: the chain of the receipt after the run:
\* extraction.store.chain when there is one and the receipt has none
BackfilledChain(e, s) ==
    IF e.chain # Null /\ s.store_chain = Null THEN e.chain ELSE s.store_chain

\* receipt_processing.py 102-106: what is stored of the extraction
OcrStructured(e) == [chain |-> e.chain, products |-> e.products]

\* receipt_processing.py 100-128 and endpoints/receipts.py 166-171: the
\* results are set, committed and refreshed; the run answers success
ProcCommitCompleted(r) ==
    /\ proc[r].pc = "match"
    /\ proc[r].i > Len(proc[r].extraction[1].products)
    /\ LET e == proc[r].extraction[1]
           s == proc[r].sess
           new == [s EXCEPT
                     !.processing_status = "completed",
                     !.ocr_raw_text = proc[r].ocr_text,
                     !.ocr_structured = <<OcrStructured(e)>>,
                     !.items_extracted = Len(e.products),
                     !.items_matched = proc[r].matched,
                     !.store_chain = BackfilledChain(e, s)]
       IN /\ receipt' = Flush(receipt, s, new)
          /\ proc' = [proc EXCEPT
                        ![r] = [IdleProc EXCEPT !.rid = proc[r].rid],
                        ![r].pc = "done",
                        ![r].calls = Append(proc[r].calls, Call("commit", "completed", "ok")),
                        ![r].resp = [NoResponse EXCEPT
                                       !.code = 200,
                                       !.success = TRUE,
                                       !.items_extracted = Len(e.products),
                                       !.items_matched = proc[r].matched]]
    /\ UNCHANGED <<inventory, conf, ledger>>

\* mutant: the handler answers the error without committing the failed status
ProcExceptNoCommit(r) ==
    /\ proc[r].pc = "except"
    /\ proc' = [proc EXCEPT
                  ![r] = [IdleProc EXCEPT !.rid = proc[r].rid],
                  ![r].pc = "done",
                  ![r].calls = proc[r].calls,
                  ![r].resp = [NoResponse EXCEPT
                                 !.code = 200,
                                 !.success = FALSE,
                                 !.error = "Receipt processing failed"]]
    /\ UNCHANGED <<receipt, inventory, conf, ledger>>

\* the handler, had it kept the text the OCR step returned
ProcExceptStoresText(r) ==
    /\ proc[r].pc = "except"
    /\ LET new == [proc[r].sess EXCEPT !.processing_status = "failed",
                                       !.ocr_raw_text = proc[r].ocr_text]
       IN /\ receipt' = Flush(receipt, proc[r].sess, new)
          /\ proc' = [proc EXCEPT
                        ![r] = [IdleProc EXCEPT !.rid = proc[r].rid],
                        ![r].pc = "done",
                        ![r].content = proc[r].content,
                        ![r].calls = Append(proc[r].calls, Call("commit", "failed", "ok")),
                        ![r].resp = [NoResponse EXCEPT
                                       !.code = 200,
                                       !.success = FALSE,
                                       !.error = "Receipt processing failed"]]
    /\ UNCHANGED <<inventory, conf, ledger>>

\* receipt_processing.py 130-144: except Exception: status := failed, commit,
\* and the run answers the error
ProcExcept(r) ==
    /\ proc[r].pc = "except"
    /\ LET new == [proc[r].sess EXCEPT !.processing_status = "failed"]
       IN /\ receipt' = Flush(receipt, proc[r].sess, new)
          /\ proc' = [proc EXCEPT
                        ![r] = [IdleProc EXCEPT !.rid = proc[r].rid],
                        ![r].pc = "done",
                        ![r].content = proc[r].content,
                        ![r].calls = Append(proc[r].calls, Call("commit", "failed", "ok")),
                        ![r].resp = [NoResponse EXCEPT
                                       !.code = 200,
                                       !.success = FALSE,
                                       !.error = "Receipt processing failed"]]
    /\ UNCHANGED <<inventory, conf, ledger>>

\* The request's task is cancelled while it waits in an await:
\* asyncio.CancelledError is a BaseException, which the except Exception of
\* receipt_processing.py 130 does not catch, so the run ends there.
ProcCancel(r) ==
    /\ proc[r].pc \in {"ocr", "llm", "match", "except"}
    /\ proc' = [proc EXCEPT ![r] = [IdleProc EXCEPT !.rid = proc[r].rid],
                            ![r].pc = "cancelled",
                            ![r].calls = proc[r].calls,
                            ![r].raised = TRUE]
    /\ UNCHANGED <<receipt, inventory, conf, ledger>>

\* ------------------------------------------------ POST /receipts/{id}/confirm

\* schemas/receipt.py ConfirmedItemCreate: the items a client may confirm
ConfirmItems(products, quantities, dates) ==
    [product_id : products, quantity : quantities, purchase_date : dates]

\* sess holds the one receipt attribute the handler assigns
IdleConf ==
    [pc |-> "idle", rid |-> TheReceipt, sess |-> [processing_status |-> "uploaded"],
     items |-> <<>>, i |-> 0, pending |-> <<>>, calls |-> <<>>,
     resp |-> NoResponse]

\* rows that exist or that a request in flight may still insert
RowsReserved ==
    Len(inventory)
    + Cardinality({f \in ConfReqs : conf[f].pc = "items" /\ Len(conf[f].items) >= 1})
    + Cardinality({f \in ConfReqs : conf[f].pc = "items" /\ Len(conf[f].items) >= 2})
    + Cardinality({f \in ConfReqs : conf[f].pc = "items" /\ Len(conf[f].items) >= 3})

\* the row of a confirmed item, had its expiry been counted from today
ConfirmedRowFromToday(rid, item) ==
    [product_master_id |-> item.product_id,
     receipt_id |-> rid,
     initial_quantity |-> item.quantity,
     current_quantity |-> item.quantity,
     status |-> "sealed",
     purchase_date |-> item.purchase_date,
     expiry_date |-> Today + DefaultShelfLifeDays(item.product_id),
     expiry_source |-> "calculated",
     opened_date |-> NoDate]

\* endpoints/receipts.py 225-236: the InventoryItem of one confirmed item
ConfirmedRow(rid, item) ==
    [product_master_id |-> item.product_id,
     receipt_id |-> rid,
     initial_quantity |-> item.quantity,
     current_quantity |-> item.quantity,
     status |-> "sealed",
     purchase_date |-> item.purchase_date,
     expiry_date |-> item.purchase_date + DefaultShelfLifeDays(item.product_id),
     expiry_source |-> "calculated",
     opened_date |-> NoDate]

\* endpoints/receipts.py 199-207: get_receipt, 404 when missing
ConfStart(f, choices, cap) ==
    /\ conf[f].pc \in {"idle", "done"}
    /\ \E rid \in ReceiptIds, items \in SeqsUpTo(choices, MaxItems) :
         /\ RowsReserved + Len(items) <= cap
         /\ IF rid = TheReceipt
            THEN conf' = [conf EXCEPT ![f] =
                            [IdleConf EXCEPT !.pc = "items", !.rid = rid,
                                             !.sess = [processing_status |->
                                                         receipt.processing_status],
                                             !.items = items, !.i = 1]]
            ELSE conf' = [conf EXCEPT ![f] =
                            [IdleConf EXCEPT !.pc = "done", !.rid = rid,
                                             !.resp = [NoResponse EXCEPT
                                                         !.code = 404]]]
    /\ UNCHANGED <<receipt, inventory, proc, ledger>>

\* mutant: the rows added so far are committed before the 400 is raised
ConfItemPartialCommit(f) ==
    /\ conf[f].pc = "items"
    /\ conf[f].i <= Len(conf[f].items)
    /\ LET item == conf[f].items[conf[f].i]
       IN IF item.product_id \in ProductIds
          THEN /\ conf' = [conf EXCEPT
                             ![f].pending = Append(@, ConfirmedRow(conf[f].rid, item)),
                             ![f].i = @ + 1]
               /\ inventory' = inventory
          ELSE /\ conf' = [conf EXCEPT
                             ![f] = [IdleConf EXCEPT !.rid = conf[f].rid,
                                                     !.i = conf[f].i],
                             ![f].pc = "done",
                             ![f].resp = [NoResponse EXCEPT
                                            !.code = 400,
                                            !.error = "Product not found"]]
               /\ inventory' = inventory \o conf[f].pending
    /\ UNCHANGED <<receipt, proc, ledger>>

\* endpoints/receipts.py 209-239: one iteration of the loop.  The product is
\* looked up; a missing one raises HTTPException 400, which line 259 re-raises:
\* the request ends and get_db closes the session, dropping what it had added.
ConfItem(f) ==
    /\ conf[f].pc = "items"
    /\ conf[f].i <= Len(conf[f].items)
    /\ LET item == conf[f].items[conf[f].i]
       IN IF item.product_id \in ProductIds
          THEN conf' = [conf EXCEPT
                          ![f].pending = Append(@, ConfirmedRow(conf[f].rid, item)),
                          ![f].i = @ + 1]
          ELSE conf' = [conf EXCEPT
                          ![f] = [IdleConf EXCEPT !.rid = conf[f].rid,
                                                  !.i = conf[f].i],
                          ![f].pc = "done",
                          ![f].resp = [NoResponse EXCEPT
                                         !.code = 400,
                                         !.error = "Product not found"]]
    /\ UNCHANGED <<receipt, inventory, proc, ledger>>

\* endpoints/receipts.py 241-268: status := confirmed, one commit for the new
\* rows and the status, the broadcast of the status, then the response; an
\* exception after the commit would be answered success = false by the
\* except Exception of line 261
ConfCommit(f, outcomes) ==
    /\ conf[f].pc = "items"
    /\ conf[f].i > Len(conf[f].items)
    /\ \E o \in outcomes :
         LET new == [conf[f].sess EXCEPT !.processing_status = "confirmed"]
             p == PublishMessage(ReceiptStatusMessage(conf[f].rid, "confirmed"), o)
         IN /\ receipt' = Flush(receipt, conf[f].sess, new)
            /\ inventory' = inventory \o conf[f].pending
            /\ conf' = [conf EXCEPT
                          ![f] = [IdleConf EXCEPT !.rid = conf[f].rid],
                          ![f].pc = "done",
                          ![f].calls = <<p.call>>,
                          ![f].resp = IF p.raised
                                      THEN [NoResponse EXCEPT
                                              !.code = 200,
                                              !.error = "Failed to confirm receipt"]
                                      ELSE [NoResponse EXCEPT
                                              !.code = 200,
                                              !.success = TRUE,
                                              !.items_created = Len(conf[f].pending)]]
            /\ consumed' = IF conf[f].pending # <<>> THEN 0 ELSE consumed
    /\ UNCHANGED <<proc, cons, upd, crt, del, ws, svc>>

\* the confirm, had it broadcast the status before committing it
ConfBroadcastThenCommit(f) ==
    /\ conf[f].pc = "items"
    /\ conf[f].i > Len(conf[f].items)
    /\ LET new == [conf[f].sess EXCEPT !.processing_status = "confirmed"]
           p == PublishMessage(ReceiptStatusMessage(conf[f].rid, "confirmed"),
                               "published")
       IN /\ receipt' = Flush(receipt, conf[f].sess, new)
          /\ inventory' = inventory \o conf[f].pending
          /\ conf' = [conf EXCEPT
                        ![f].sess = new,
                        ![f].pc = "broadcast",
                        ![f].calls = <<p.call, Call("commit", "confirmed", "ok")>>]
          /\ consumed' = IF conf[f].pending # <<>> THEN 0 ELSE consumed
    /\ UNCHANGED <<proc, cons, upd, crt, del, ws, svc>>

\* endpoints/receipts.py 241-243, as a step of its own: status := confirmed
\* and the commit of the new rows and the status; the request then waits in
\* the await of the broadcast
ConfCommitted(f) ==
    /\ conf[f].pc = "items"
    /\ conf[f].i > Len(conf[f].items)
    /\ LET new == [conf[f].sess EXCEPT !.processing_status = "confirmed"]
       IN /\ receipt' = Flush(receipt, conf[f].sess, new)
          /\ inventory' = inventory \o conf[f].pending
          /\ conf' = [conf EXCEPT
                        ![f].sess = new,
                        ![f].pc = "broadcast",
                        ![f].calls = <<Call("commit", "confirmed", "ok")>>]
          /\ consumed' = IF conf[f].pending # <<>> THEN 0 ELSE consumed
    /\ UNCHANGED <<proc, cons, upd, crt, del, ws, svc>>

\* endpoints/receipts.py 245-257: the broadcast of the status, unless the
\* request already made it, then the response
ConfBroadcast(f, outcomes) ==
    /\ conf[f].pc = "broadcast"
    /\ \E o \in outcomes :
         LET p == PublishMessage(ReceiptStatusMessage(conf[f].rid, "confirmed"), o)
         IN conf' = [conf EXCEPT
                       ![f] = [IdleConf EXCEPT !.rid = conf[f].rid],
                       ![f].pc = "done",
                       ![f].calls = IF Len(conf[f].calls) > 1 THEN conf[f].calls
                                    ELSE Append(conf[f].calls, p.call),
                       ![f].resp = [NoResponse EXCEPT
                                      !.code = 200,
                                      !.success = TRUE,
                                      !.items_created = Len(conf[f].pending)]]
    /\ UNCHANGED <<receipt, inventory, proc, ledger>>

\* ---------------------------------------------------------- the inventory

\* the item the consume and update requests address: the first row
TheItem == 1

\* what is left of a row that was deleted
Deleted == [deleted |-> TRUE]

\* crud/inventory_item.py get_inventory_item finds the item
ItemExists == TheItem <= Len(inventory) /\ inventory[TheItem] # Deleted

IdleCons ==
    [pc |-> "idle", q |-> 0, loaded |-> <<>>, sess |-> <<>>, calls |-> <<>>,
     resp |-> NoResponse]

IdleUpd ==
    [pc |-> "idle", loaded |-> <<>>, sess |-> <<>>, calls |-> <<>>,
     resp |-> NoResponse]

\* schemas/inventory_item.py InventoryItemCreate, as create_inventory_item
\* stores it: initial_quantity > 0 and current_quantity >= 0 are all the
\* schema asks of the quantities
CreatedRow(initial, current, status) ==
    [product_master_id |-> "pA",
     receipt_id |-> Null,
     initial_quantity |-> initial,
     current_quantity |-> current,
     status |-> status,
     purchase_date |-> Today,
     expiry_date |-> Today + DefaultShelfLifeDays("pA"),
     expiry_source |-> "manual",
     opened_date |-> NoDate]

\* every row a client may create with the default status
CreatableRows ==
    {CreatedRow(initial, current, "sealed") : initial \in 1..MaxQty,
                                              current \in 0..MaxQty}

\* POST /inventory: crud/inventory_item.py create_inventory_item, then
\* endpoints/inventory.py 89-99: the broadcast and the 201 response
CreateItem(cap, outcomes, rows) ==
    /\ RowsReserved + 1 <= cap
    /\ \E row \in rows : inventory' = Append(inventory, row)
    /\ \E o \in outcomes :
         LET p == PublishMessage(
                    InventoryUpdateMessage(Len(inventory) + 1, "created"), o)
         IN crt' = [pc |-> "done", calls |-> <<p.call>>,
                    resp |-> [NoResponse EXCEPT
                                !.code = IF p.raised THEN 500 ELSE 201,
                                !.success = ~p.raised]]
    /\ consumed' = 0
    /\ UNCHANGED <<receipt, proc, conf, cons, upd, del, ws, svc>>

\* the guard of consume, had it compared with the quantity bought
InsufficientQuantityOfInitial(q, item) == q > item.initial_quantity

\* the guard of consume, had it been left out
InsufficientQuantityNever(q, item) == FALSE

\* crud/inventory_item.py 154: the guard of consume
InsufficientQuantity(q, item) == q > item.current_quantity

\* what consume sets, had it dated the opening of an item it empties too
ConsumedDatesEmptied(item, q) ==
    LET new_quantity == item.current_quantity - q
        withQty == [item EXCEPT !.current_quantity = new_quantity,
                                !.opened_date = IF item.status = "sealed"
                                                THEN Today ELSE @]
    IN IF new_quantity = 0
       THEN [withQty EXCEPT !.status = "empty"]
       ELSE IF new_quantity < item.initial_quantity
       THEN [withQty EXCEPT
               !.status = IF new_quantity * 100 < 75 * item.initial_quantity
                          THEN "partial" ELSE "opened"]
       ELSE [withQty EXCEPT !.opened_date = item.opened_date]

\* crud/inventory_item.py 159-176: the quantity and the status consume sets
\* on the loaded item
Consumed(item, q) ==
    LET new_quantity == item.current_quantity - q
        withQty == [item EXCEPT !.current_quantity = new_quantity]
    IN IF new_quantity = 0
       THEN [withQty EXCEPT !.status = "empty"]
       ELSE IF new_quantity < item.initial_quantity
       THEN [withQty EXCEPT
               !.opened_date = IF item.status = "sealed" THEN Today ELSE @,
               !.status = IF new_quantity * 100 < 75 * item.initial_quantity
                          THEN "partial" ELSE "opened"]
       ELSE withQty

\* endpoints/inventory.py 179-187, 200-204 and crud/inventory_item.py 150-176:
\* the item is read (404 when there is none), the guard raises ValueError,
\* answered 400, and otherwise the new quantity and status are set
ConsStart(c, quantities) ==
    /\ cons[c].pc \in {"idle", "done"}
    /\ \E q \in quantities :
         IF ~ItemExists
         THEN cons' = [cons EXCEPT ![c] =
                         [IdleCons EXCEPT !.pc = "done", !.q = q,
                                          !.resp = [NoResponse EXCEPT !.code = 404]]]
         ELSE IF InsufficientQuantity(q, inventory[TheItem])
         THEN cons' = [cons EXCEPT ![c] =
                         [IdleCons EXCEPT !.pc = "done", !.q = q,
                                          !.resp = [NoResponse EXCEPT
                                                      !.code = 400,
                                                      !.error = "Cannot consume"]]]
         ELSE cons' = [cons EXCEPT ![c] =
                         [IdleCons EXCEPT !.pc = "commit", !.q = q,
                                          !.loaded = <<inventory[TheItem]>>,
                                          !.sess = <<Consumed(inventory[TheItem], q)>>]]
    /\ UNCHANGED <<receipt, inventory, proc, conf, upd, consumed, crt, del, ws, svc>>

\* crud/inventory_item.py 178-180 and endpoints/inventory.py 189-199: commit,
\* refresh, the broadcast, and the item is the response
ConsCommit(c, outcomes) ==
    /\ cons[c].pc = "commit"
    /\ ItemExists
    /\ inventory' = [inventory EXCEPT ![TheItem] =
                       Flush(@, cons[c].loaded[1], cons[c].sess[1])]
    /\ \E o \in outcomes :
         LET p == PublishMessage(InventoryUpdateMessage(TheItem, "consumed"), o)
         IN cons' = [cons EXCEPT ![c] =
                       [IdleCons EXCEPT
                          !.pc = "done", !.q = cons[c].q,
                          !.calls = <<p.call>>,
                          !.resp = [NoResponse EXCEPT
                                      !.code = IF p.raised THEN 500 ELSE 200,
                                      !.success = ~p.raised]]]
    /\ consumed' = consumed + cons[c].q
    /\ UNCHANGED <<receipt, proc, conf, upd, crt, del, ws, svc>>

\* crud/inventory_item.py 178-180, as a step of its own: commit and refresh;
\* the request then waits in the await of the broadcast
ConsCommitted(c) ==
    /\ cons[c].pc = "commit"
    /\ ItemExists
    /\ inventory' = [inventory EXCEPT ![TheItem] =
                       Flush(@, cons[c].loaded[1], cons[c].sess[1])]
    /\ cons' = [cons EXCEPT ![c].pc = "broadcast",
                            ![c].calls = <<Call("commit", "consumed", "ok")>>]
    /\ consumed' = consumed + cons[c].q
    /\ UNCHANGED <<receipt, proc, conf, upd, crt, del, ws, svc>>

\* endpoints/inventory.py 189-199: the broadcast, and the item is the response
ConsBroadcast(c, outcomes) ==
    /\ cons[c].pc = "broadcast"
    /\ \E o \in outcomes :
         LET p == PublishMessage(InventoryUpdateMessage(TheItem, "consumed"), o)
         IN cons' = [cons EXCEPT ![c] =
                       [IdleCons EXCEPT
                          !.pc = "done", !.q = cons[c].q,
                          !.calls = Append(cons[c].calls, p.call),
                          !.resp = [NoResponse EXCEPT !.code = 200,
                                                      !.success = TRUE]]]
    /\ UNCHANGED <<receipt, inventory, proc, conf, upd, consumed, crt, del, ws, svc>>

\* The commit of a consume or an update whose row was deleted meanwhile: the
\* UPDATE matches no row, the flush raises StaleDataError and the request is
\* answered 500 without a broadcast.
StaleCommit ==
    /\ ~ItemExists
    /\ \/ \E c \in ConsReqs :
            /\ cons[c].pc = "commit"
            /\ cons' = [cons EXCEPT ![c] =
                          [IdleCons EXCEPT !.pc = "done", !.q = cons[c].q,
                                           !.resp = [NoResponse EXCEPT !.code = 500]]]
            /\ upd' = upd
       \/ \E u \in UpdReqs :
            /\ upd[u].pc = "commit"
            /\ upd' = [upd EXCEPT ![u] =
                         [IdleUpd EXCEPT !.pc = "done",
                                         !.resp = [NoResponse EXCEPT !.code = 500]]]
            /\ cons' = cons
    /\ UNCHANGED <<receipt, inventory, proc, conf, consumed, crt, del, ws, svc>>

\* DELETE /inventory/{id}: endpoints/inventory.py 140-169 and
\* crud/inventory_item.py delete_inventory_item: 404 when there is no item,
\* else the row is deleted and committed, the deletion is broadcast and the
\* answer is 204
DeleteItem(outcomes) ==
    /\ IF ~ItemExists
       THEN /\ del' = [IdleCrt EXCEPT !.pc = "done",
                                      !.resp = [NoResponse EXCEPT !.code = 404]]
            /\ inventory' = inventory
       ELSE /\ inventory' = [inventory EXCEPT ![TheItem] = Deleted]
            /\ \E o \in outcomes :
                 LET p == PublishMessage(InventoryUpdateMessage(TheItem, "deleted"), o)
                 IN del' = [pc |-> "done", calls |-> <<p.call>>,
                            resp |-> [NoResponse EXCEPT
                                        !.code = IF p.raised THEN 500 ELSE 204,
                                        !.success = ~p.raised]]
    /\ UNCHANGED <<receipt, proc, conf, cons, upd, consumed, crt, ws, svc>>

\* schemas/inventory_item.py InventoryItemUpdate: the fields a PATCH may carry
Patches ==
    {<<"current_quantity", v>> : v \in 0..MaxQty}
    \cup {<<"status", st>> : st \in ItemStatuses}

\* crud/inventory_item.py 101-108: the item is read (404 when there is none)
\* and the given fields are set
UpdStart(u, patches) ==
    /\ upd[u].pc \in {"idle", "done"}
    /\ \E patch \in patches :
         IF ~ItemExists
         THEN upd' = [upd EXCEPT ![u] =
                        [IdleUpd EXCEPT !.pc = "done",
                                        !.resp = [NoResponse EXCEPT !.code = 404]]]
         ELSE upd' = [upd EXCEPT ![u] =
                        [IdleUpd EXCEPT
                           !.pc = "commit",
                           !.loaded = <<inventory[TheItem]>>,
                           !.sess = <<[inventory[TheItem] EXCEPT
                                         ![patch[1]] = patch[2]]>>]]
    /\ UNCHANGED <<receipt, inventory, proc, conf, cons, consumed, crt, del, ws, svc>>

\* crud/inventory_item.py 110-112 and endpoints/inventory.py 127-137: commit,
\* refresh, the broadcast, and the item is the response
UpdCommit(u, outcomes) ==
    /\ upd[u].pc = "commit"
    /\ ItemExists
    /\ inventory' = [inventory EXCEPT ![TheItem] =
                       Flush(@, upd[u].loaded[1], upd[u].sess[1])]
    /\ \E o \in outcomes :
         LET p == PublishMessage(InventoryUpdateMessage(TheItem, "updated"), o)
         IN upd' = [upd EXCEPT ![u] =
                      [IdleUpd EXCEPT
                         !.pc = "done",
                         !.calls = <<p.call>>,
                         !.resp = [NoResponse EXCEPT
                                     !.code = IF p.raised THEN 500 ELSE 200,
                                     !.success = ~p.raised]]]
    /\ consumed' = IF upd[u].sess[1].current_quantity
                        # upd[u].loaded[1].current_quantity
                   THEN 0 ELSE consumed
    /\ UNCHANGED <<receipt, proc, conf, cons, crt, del, ws, svc>>

\* ------------------------------------------------------ the receipt pipeline

\* Concurrent requests on one receipt: two process runs and a confirm, with
\* one OCR text and the extractions of at most one product.
LightTexts == {"textA"}
LightExtractions == [chain : {Null}, products : {<<"milk">>}]
LightChoices == ConfirmItems({"pA", MissingProduct}, {MaxQty}, {Today})

InitReceipt ==
    /\ receipt = NewReceipt(Null)
    /\ inventory = <<>>
    /\ proc = [r \in ProcReqs |-> IdleProc]
    /\ conf = [f \in ConfReqs |-> IdleConf]
    /\ cons = [c \in ConsReqs |-> IdleCons]
    /\ upd = [u \in UpdReqs |-> IdleUpd]
    /\ consumed = 0
    /\ crt = IdleCrt
    /\ del = IdleCrt
    /\ ws = NoConnections
    /\ svc = NoCall

NextReceipt ==
    \/ \E r \in ProcReqs : ProcStart(r)
    \/ \E r \in ProcReqs : ProcCommitProcessing(r)
    \/ \E r \in ProcReqs : ProcOcr(r, LightTexts)
    \/ \E r \in ProcReqs : ProcLlm(r, LightExtractions)
    \/ \E r \in ProcReqs : ProcMatch(r)
    \/ \E r \in ProcReqs : ProcCommitCompleted(r)
    \/ \E r \in ProcReqs : ProcExcept(r)
    \/ \E r \in ProcReqs : ProcCancel(r)
    \/ \E f \in ConfReqs : ConfStart(f, LightChoices, MaxRows)
    \/ \E f \in ConfReqs : ConfItem(f)
    \/ \E f \in ConfReqs : ConfCommit(f, Published)

SpecReceipt == InitReceipt /\ [][NextReceipt]_vars

\* One process run at a time, with every OCR text and every extraction;
\* confirm requests carry no items.

InitPipeline ==
    /\ \E chain \in Chains : receipt = NewReceipt(chain)
    /\ inventory = <<>>
    /\ proc = [r \in ProcReqs |-> IdleProc]
    /\ conf = [f \in ConfReqs |-> IdleConf]
    /\ cons = [c \in ConsReqs |-> IdleCons]
    /\ upd = [u \in UpdReqs |-> IdleUpd]
    /\ consumed = 0
    /\ crt = IdleCrt
    /\ del = IdleCrt
    /\ ws = NoConnections
    /\ svc = NoCall

NextPipeline ==
    \/ ProcStart("p1")
    \/ ProcCommitProcessing("p1")
    \/ ProcOcr("p1", OcrTexts)
    \/ ProcLlm("p1", Extractions)
    \/ ProcMatch("p1")
    \/ ProcCommitCompleted("p1")
    \/ ProcExcept("p1")
    \/ ProcCancel("p1")
    \/ \E f \in ConfReqs : ConfStart(f, {}, MaxRows)
    \/ \E f \in ConfReqs : ConfCommit(f, Published)

SpecPipeline == InitPipeline /\ [][NextPipeline]_vars

\* ------------------------------------------------------------- the ledger

\* One inventory item, created by the create endpoint, then consumed by one
\* request and updated by another.
LedgerChoices == ConfirmItems({"pA"}, 1..MaxQty, {Today})

InitLedger ==
    /\ receipt = [NewReceipt(Null) EXCEPT !.processing_status = "completed"]
    /\ inventory = <<>>
    /\ proc = [r \in ProcReqs |-> IdleProc]
    /\ conf = [f \in ConfReqs |-> IdleConf]
    /\ cons = [c \in ConsReqs |-> IdleCons]
    /\ upd = [u \in UpdReqs |-> IdleUpd]
    /\ consumed = 0
    /\ crt = IdleCrt
    /\ del = IdleCrt
    /\ ws = NoConnections
    /\ svc = NoCall

NextLedger ==
    \/ CreateItem(TheItem, Published, CreatableRows)
    \/ ConsStart("c1", 1..MaxQty)
    \/ ConsCommit("c1", Published)
    \/ \E u \in UpdReqs : UpdStart(u, Patches)
    \/ \E u \in UpdReqs : UpdCommit(u, Published)

SpecLedger == InitLedger /\ [][NextLedger]_vars

\* The consume requests alone, on an item a confirm created.
NextConsume ==
    \/ \E f \in ConfReqs : ConfStart(f, LedgerChoices, TheItem)
    \/ \E f \in ConfReqs : ConfItem(f)
    \/ \E f \in ConfReqs : ConfCommit(f, Published)
    \/ \E c \in ConsReqs : ConsStart(c, 1..MaxQty)
    \/ \E c \in ConsReqs : ConsCommit(c, Published)

SpecConsume == InitLedger /\ [][NextConsume]_vars

\* Confirm requests alone, one after the other, with items of every product,
\* two quantities and two purchase dates.
ConfirmChoices ==
    ConfirmItems(ProductIds \cup {MissingProduct}, {1, MaxQty}, {Today - 1, Today})

NextConfirm ==
    \/ \E f \in ConfReqs : ConfStart(f, ConfirmChoices, MaxRows)
    \/ \E f \in ConfReqs : ConfItem(f)
    \/ \E f \in ConfReqs : ConfCommit(f, Published)

SpecConfirm == InitLedger /\ [][NextConfirm]_vars

\* Every request that broadcasts, with every outcome of the publication: one
\* item is created by the create endpoint or by a confirm, consumed, updated
\* and deleted.
EventChoices == ConfirmItems({"pA"}, {MaxQty}, {Today})
EventRows == {CreatedRow(MaxQty, MaxQty, "sealed")}
EventQuantities == {1, MaxQty}
EventPatches == {<<"status", "discarded">>}

NextEvents ==
    \/ CreateItem(TheItem, PublishOutcomes, EventRows)
    \/ \E f \in ConfReqs : ConfStart(f, EventChoices, TheItem)
    \/ \E f \in ConfReqs : ConfItem(f)
    \/ \E f \in ConfReqs : ConfCommit(f, PublishOutcomes)
    \/ ConsStart("c1", EventQuantities)
    \/ ConsCommit("c1", PublishOutcomes)
    \/ \E u \in UpdReqs : UpdStart(u, EventPatches)
    \/ \E u \in UpdReqs : UpdCommit(u, PublishOutcomes)
    \/ StaleCommit
    \/ DeleteItem(PublishOutcomes)

SpecEvents == InitLedger /\ [][NextEvents]_vars

\* The connection manager: clients come and go between broadcasts, none
\* during one.
Quiet == {"idle", "done"}

NextBroadcast ==
    \/ \E w \in Connections : Connect(w, Quiet)
    \/ \E w \in Connections : Disconnect(w, Quiet)
    \/ BroadcastStart
    \/ BroadcastSend
    \/ BroadcastEnd

SpecBroadcast == InitLedger /\ [][NextBroadcast]_vars

\* match_product on catalogs of names with blanks and letters of either
\* case, asked for those names in every case and with added spaces.
CanonicalNames ==
    {<<"i">>, <<"I", " ", "i">>, <<"i_dotless">>, <<" ">>, <<>>}

Spaces(n) == [k \in 1..n |-> " "]

\* str with every space followed by extra more
RECURSIVE Stretch(_, _)
Stretch(str, extra) ==
    IF str = <<>> THEN <<>>
    ELSE IF IsSpace(Head(str))
    THEN Spaces(1 + extra) \o Stretch(Tail(str), extra)
    ELSE <<Head(str)>> \o Stretch(Tail(str), extra)

\* name with each character as it is, in lower case or in upper case
CaseVariants(name) ==
    {v \in [1..Len(name) -> Chars] :
        \A k \in 1..Len(name) :
            v[k] \in {name[k], Lower(name[k]), Upper(name[k])}}

\* name in any letter case, with spaces added before it, after it and to
\* the spaces inside it
Variants(name) ==
    {Spaces(l) \o Stretch(v, e) \o Spaces(r) :
        v \in CaseVariants(name), l \in 0..MaxPad, e \in 0..MaxPad, r \in 0..MaxPad}

ExactQueries == UNION {Variants(n) : n \in CanonicalNames}
ExactMins == {0, 50, 101}
ExactScores == {0, 99}

NextExact ==
    \/ CallMatchProduct(SeqsUpTo(CanonicalNames, MaxProducts), ExactQueries,
                        ExactMins, ExactScores)
    \/ Return

SpecExact == InitLedger /\ [][NextExact]_vars

\* match_product and match_all on catalogs of up to MaxCatalog products,
\* some of which may bear one name, for every table of scores.
MatchNames == {<<"i">>, <<"I", "i">>, <<"I", " ", "I">>}
MatchQueries == {<<"I">>, <<" ", "i", "I", " ">>, <<" ">>, <<>>}
MatchMins == {0, 50, 60, 101}
MatchLimits == 1..MaxCatalog

NextMatching ==
    \/ CallMatchProduct(SeqsUpTo(MatchNames, MaxCatalog), MatchQueries,
                        MatchMins, Scores)
    \/ CallMatchAll(SeqsUpTo(MatchNames, MaxCatalog), MatchQueries,
                    MatchLimits, MatchMins, Scores)
    \/ Return

SpecMatching == InitLedger /\ [][NextMatching]_vars

\* extract_text_from_receipt on every path of up to MaxPath characters.
NextOcr ==
    \/ CallExtractText(SeqsUpTo(PathChars, MaxPath), BackendOutcomes)
    \/ Return

SpecOcr == InitLedger /\ [][NextOcr]_vars

\* One process run after the other on a receipt uploaded with or without a
\* store chain, the LLM answering every content: not JSON, or products with
\* and without a name, with a negative and a positive quantity, under every
\* pair of a flat and a nested chain.
UploadedChains == {Null, "s-group"}
FlatChains == {Null, "lidl"}
NestedChains == {Null, "k-group"}
Contents ==
    {NotJson} \cup
    JsonContents(FlatChains, NestedChains,
                 SeqsUpTo(RawProducts({"milk", Null}, {-1, 1}), MaxProducts))

InitExtraction ==
    /\ \E chain \in UploadedChains : receipt = NewReceipt(chain)
    /\ inventory = <<>>
    /\ proc = [r \in ProcReqs |-> IdleProc]
    /\ conf = [f \in ConfReqs |-> IdleConf]
    /\ cons = [c \in ConsReqs |-> IdleCons]
    /\ upd = [u \in UpdReqs |-> IdleUpd]
    /\ consumed = 0
    /\ crt = IdleCrt
    /\ del = IdleCrt
    /\ ws = NoConnections
    /\ svc = NoCall

NextExtraction ==
    \/ ProcStart("p1")
    \/ ProcCommitProcessing("p1")
    \/ ProcOcr("p1", OcrTexts)
    \/ ProcLlmContent("p1", Contents)
    \/ ProcMatch("p1")
    \/ ProcCommitCompleted("p1")
    \/ ProcExcept("p1")

SpecExtraction == InitExtraction /\ [][NextExtraction]_vars

\* One item, created by the create endpoint, and one consume after the
\* other.
NextOpened ==
    \/ CreateItem(TheItem, Published, CreatableRows)
    \/ ConsStart("c1", 1..MaxQty)
    \/ ConsCommit("c1", Published)

SpecOpened == InitLedger /\ [][NextOpened]_vars

\* The connection manager with clients that come and go at any time, during
\* a broadcast too: its loop gives way at every send.
Anytime == {"idle", "sending", "done"}

NextInterleaved ==
    \/ \E w \in Connections : Connect(w, Anytime)
    \/ \E w \in Connections : Disconnect(w, Anytime)
    \/ BroadcastStart
    \/ BroadcastSend
    \/ BroadcastEnd

SpecInterleaved == InitLedger /\ [][NextInterleaved]_vars

\* Confirm and consume requests whose commit and whose broadcast are two
\* steps, with every outcome of the publication; some confirm a missing
\* receipt or a missing product, some consume more than there is.
NextPublish ==
    \/ \E f \in ConfReqs : ConfStart(f, LightChoices, TheItem)
    \/ \E f \in ConfReqs : ConfItem(f)
    \/ \E f \in ConfReqs : ConfCommitted(f)
    \/ \E f \in ConfReqs : ConfBroadcast(f, PublishOutcomes)
    \/ ConsStart("c1", 1..MaxQty)
    \/ ConsCommitted("c1")
    \/ ConsBroadcast("c1", PublishOutcomes)

SpecPublish == InitLedger /\ [][NextPublish]_vars

\* Two consume requests and an update of the quantity, interleaved at their
\* awaits, on an item created full or nearly empty.
RacedRows == {CreatedRow(MaxQty, MaxQty, "sealed"), CreatedRow(MaxQty, 1, "partial")}
RacedQuantities == {1, MaxQty - 1}
QuantityPatches == {<<"current_quantity", v>> : v \in {0, MaxQty}}

NextRace ==
    \/ CreateItem(TheItem, Published, RacedRows)
    \/ \E c \in ConsReqs : ConsStart(c, RacedQuantities)
    \/ \E c \in ConsReqs : ConsCommit(c, Published)
    \/ \E u \in UpdReqs : UpdStart(u, QuantityPatches)
    \/ \E u \in UpdReqs : UpdCommit(u, Published)

SpecRace == InitLedger /\ [][NextRace]_vars

\* The upload endpoint with every content type and every file name of up to
\* MaxPath characters.
NextUpload ==
    \/ CallUpload(ContentTypes, SeqsUpTo(PathChars, MaxPath))
    \/ Return

SpecUpload == InitLedger /\ [][NextUpload]_vars

\* ================================================================ claims

Last(c) == c[Len(c)]

\* ---- C1 ----
\* C1: every change of the receipt's processing_status is one of
\* uploaded->processing, processing->completed, processing->failed,
\* completed->confirmed.
AllowedTransitions ==
    {<<"uploaded", "processing">>, <<"processing", "completed">>,
     <<"processing", "failed">>, <<"completed", "confirmed">>}

C1_StatusMonotonic ==
    [][receipt'.processing_status # receipt.processing_status
       => <<receipt.processing_status, receipt'.processing_status>>
              \in AllowedTransitions]_vars

HasMissingProduct(items) ==
    \E k \in 1..Len(items) : items[k].product_id \notin ProductIds

C5_ConfirmAllOrNothing ==
    [][\A f \in ConfReqs :
         (/\ conf[f].pc = "items"
          /\ HasMissingProduct(conf[f].items)
          /\ conf'[f] # conf[f])
         => /\ inventory' = inventory
            /\ receipt' = receipt
            /\ (conf'[f].pc = "done" => conf'[f].resp.code = 400)]_vars

\* the request ended with 400 at its second item, the first one being valid
C5_Witness ==
    \E f \in ConfReqs :
        /\ conf[f].pc = "done"
        /\ conf[f].resp.code = 400
        /\ conf[f].i = 2
        /\ inventory = <<>>
        /\ receipt.processing_status = "completed"

\* ---- C7 ----
\* C7: no terminated run that has committed processing leaves without having
\* committed completed or failed.
Terminated(r) == proc[r].pc \in {"done", "cancelled"}

C7_NoStrandedRun ==
    \A r \in ProcReqs :
        (Terminated(r) /\ proc[r].calls # <<>>)
        => /\ Last(proc[r].calls).op = "commit"
           /\ Last(proc[r].calls).arg \in {"completed", "failed"}

\* ---- C8 ----
\* C8: the calls of one run come in a fixed order: the commit of processing
\* first, then the OCR call, then the LLM call with the text OCR returned,
\* then the matching calls, one per extracted product, then the commit of
\* completed; after a call that raised, nothing but the commit of failed.
MatchCalls(c, k) == \A j \in 4..k : c[j].op = "match" /\ c[j].res # "raise"

OrderedCalls(c) ==
    \A k \in 1..Len(c) :
        /\ (k = 1) <=> (c[k].op = "commit" /\ c[k].arg = "processing")
        /\ c[k].op = "ocr" => k = 2
        /\ c[k].op = "llm" =>
              /\ k = 3
              /\ c[2].op = "ocr" /\ c[2].res # "raise"
              /\ c[k].arg = c[2].res
        /\ c[k].op = "match" =>
              /\ k > 3
              /\ c[3].op = "llm" /\ c[3].res = "ok"
              /\ MatchCalls(c, k - 1)
        /\ (c[k].op = "commit" /\ c[k].arg = "completed") =>
              /\ k = Len(c) /\ k > 3
              /\ c[3].op = "llm" /\ c[3].res = "ok"
              /\ MatchCalls(c, k - 1)
        /\ c[k].res = "raise" =>
              \/ k = Len(c)
              \/ /\ k + 1 = Len(c)
                 /\ c[k + 1].op = "commit" /\ c[k + 1].arg = "failed"

C8_StepsInOrder ==
    \A r \in ProcReqs :
        /\ OrderedCalls(proc[r].calls)
        /\ proc[r].pc \in {"ocr", "llm", "match", "except"} => Len(proc[r].calls) >= 1
        /\ proc[r].pc \in {"llm", "match"} => Last(proc[r].calls).res # "raise"
        /\ (proc[r].pc = "done" /\ proc[r].resp.success) =>
              /\ Last(proc[r].calls).arg = "completed"
              /\ Len(proc[r].calls) = 4 + proc[r].resp.items_extracted

C8_Witness ==
    \E r \in ProcReqs :
        /\ proc[r].pc = "done"
        /\ proc[r].resp.success
        /\ Len(proc[r].calls) = 6
        /\ proc[r].calls[3].arg = "textB"

\* ---------------------------------------------------------------- consume

\* C3: a consume of more than the item's current_quantity is answered 400
\* and is over at once: the request never reaches its commit, and the item
\* (current_quantity, status, opened_date and every other field) is as it was.
C3_InsufficientLeavesItem ==
    [][\A c \in ConsReqs :
         (/\ cons[c].pc \in {"idle", "done"}
          /\ cons'[c] # cons[c]
          /\ TheItem <= Len(inventory)
          /\ cons'[c].q > inventory[TheItem].current_quantity)
         => /\ cons'[c].pc = "done"
            /\ cons'[c].resp.code = 400
            /\ cons'[c].resp.success = FALSE
            /\ inventory' = inventory]_vars

C3_Witness ==
    /\ TheItem <= Len(inventory)
    /\ inventory[TheItem].current_quantity > 0
    /\ inventory[TheItem].status = "opened"
    /\ cons["c1"].pc = "done"
    /\ cons["c1"].resp.code = 400
    /\ cons["c1"].q > inventory[TheItem].current_quantity

\* the status the consume rule gives an item left with new of initial
RuleStatus(new, initial, prior) ==
    IF new = 0 THEN "empty"
    ELSE IF new < initial
    THEN IF 4 * new < 3 * initial THEN "partial" ELSE "opened"
    ELSE prior

\* C4: when a consume of q succeeds, having read current_quantity, the item
\* is left with current_quantity - q and with the status the rule gives that
\* quantity: empty at 0, else partial below 75% of initial_quantity and opened
\* from 75% up.
C4_ConsumeSetsQuantityAndStatus ==
    [][\A c \in ConsReqs :
         (cons[c].pc = "commit" /\ cons'[c].pc = "done")
         => LET read == cons[c].loaded[1]
                new == read.current_quantity - cons[c].q
            IN /\ inventory'[TheItem].current_quantity = new
               /\ inventory'[TheItem].status =
                    RuleStatus(new, read.initial_quantity, read.status)]_vars

\* C6: once no consume is in flight, the item's current_quantity is the
\* quantity it started with less everything the successful consumes took.
C6_NoLostUpdate ==
    (/\ TheItem <= Len(inventory)
     /\ \A c \in ConsReqs : cons[c].pc # "commit")
    => inventory[TheItem].current_quantity
         = inventory[TheItem].initial_quantity - consumed

\* C9: no item holds more than was bought.
C9_CurrentAtMostInitial ==
    \A i \in 1..Len(inventory) :
        inventory[i].current_quantity <= inventory[i].initial_quantity

\* the status the quantities alone would give
StatusOfQuantities(item) ==
    IF item.current_quantity = 0 THEN "empty"
    ELSE IF item.current_quantity = item.initial_quantity THEN "sealed"
    ELSE IF 4 * item.current_quantity < 3 * item.initial_quantity THEN "partial"
    ELSE "opened"

\* C10: every item's status is the one its quantities give: sealed when
\* full, empty at 0, partial below 75%, opened from 75% up.
C10_StatusFollowsQuantities ==
    \A i \in 1..Len(inventory) :
        inventory[i].current_quantity <= inventory[i].initial_quantity
        => inventory[i].status = StatusOfQuantities(inventory[i])

\* ---------------------------------------------------------------- confirm

C12_EmptyConfirmIsNoOp ==
    [][\A f \in ConfReqs :
         (/\ conf[f].pc = "items"
          /\ conf[f].items = <<>>
          /\ conf'[f].pc = "done")
         => /\ conf'[f].resp.code = 200
            /\ conf'[f].resp.success = TRUE
            /\ conf'[f].resp.items_created = 0
            /\ inventory' = inventory
            /\ receipt' = receipt]_vars

\* ---------------------------------------------------------------- counts

\* the products of a run's call log for which the engine returned a match
MatchedInLog(c) == {j \in 1..Len(c) : c[j].op = "match" /\ c[j].res = "match"}

PublishedIn(c, m) == \E k \in 1..Len(c) : c[k].op = "publish" /\ c[k].arg = m

\* C14: a request that has ended has handed publish_message a receipt_status
\* message for every processing_status it committed (processing, completed,
\* failed, confirmed), and an inventory_update message for the items it
\* created or consumed, those of a confirm included.
C14_MutationsArePublished ==
    /\ \A r \in ProcReqs :
          proc[r].pc = "done"
          => \A j \in 1..Len(proc[r].calls) :
                proc[r].calls[j].op = "commit"
                => PublishedIn(proc[r].calls,
                               ReceiptStatusMessage(proc[r].rid, proc[r].calls[j].arg))
    /\ \A f \in ConfReqs :
          (conf[f].pc = "done" /\ conf[f].resp.success)
          => /\ PublishedIn(conf[f].calls, ReceiptStatusMessage(conf[f].rid, "confirmed"))
             /\ conf[f].resp.items_created > 0
                => \E k \in 1..Len(conf[f].calls) :
                      conf[f].calls[k].arg.type = "inventory_update"
    /\ \A c \in ConsReqs :
          (cons[c].pc = "done" /\ cons[c].resp.success)
          => PublishedIn(cons[c].calls, InventoryUpdateMessage(TheItem, "consumed"))
    /\ crt.pc = "done"
       => PublishedIn(crt.calls, InventoryUpdateMessage(TheItem, "created"))

\* the publication of a request's log failed
PublishFailed(c) == c # <<>> /\ c[1].op = "publish" /\ c[1].res # "published"

\* C15: whatever happens inside publish_message, it returns, and the request
\* that called it answers as it does when the message is published (confirm:
\* success with the number of rows; consume, update: 200; create: 201;
\* delete: 204) and has committed what it set out to commit.
C15_PublishFailureIsSwallowed ==
    [][/\ \A f \in ConfReqs :
            (conf[f].pc = "items" /\ conf'[f].pc = "done" /\ conf'[f].calls # <<>>)
            => /\ conf'[f].resp.code = 200
               /\ conf'[f].resp.success
               /\ conf'[f].resp.items_created = Len(conf[f].pending)
               /\ inventory' = inventory \o conf[f].pending
               /\ receipt'.processing_status = "confirmed"
       /\ \A c \in ConsReqs :
            (cons[c].pc = "commit" /\ cons'[c].pc = "done" /\ cons'[c].calls # <<>>)
            => /\ cons'[c].resp.code = 200
               /\ inventory'[TheItem].current_quantity
                    = cons[c].sess[1].current_quantity
       /\ \A u \in UpdReqs :
            (upd[u].pc = "commit" /\ upd'[u].pc = "done" /\ upd'[u].calls # <<>>)
            => /\ upd'[u].resp.code = 200
               /\ upd[u].sess[1].status # upd[u].loaded[1].status
                  => inventory'[TheItem].status = upd[u].sess[1].status
       /\ (crt' # crt /\ crt'.calls # <<>>)
            => /\ crt'.resp.code = 201
               /\ Len(inventory') = Len(inventory) + 1
       /\ (del' # del /\ del'.calls # <<>>)
            => /\ del'.resp.code = 204
               /\ inventory'[TheItem] = Deleted]_vars

C15_Witness ==
    /\ \E f \in ConfReqs :
          /\ conf[f].pc = "done"
          /\ PublishFailed(conf[f].calls)
          /\ conf[f].calls[1].res = "no_client"
          /\ conf[f].resp.success
          /\ conf[f].resp.items_created = 1
    /\ cons["c1"].pc = "done"
    /\ PublishFailed(cons["c1"].calls)
    /\ cons["c1"].calls[1].res = "not_encodable"
    /\ cons["c1"].resp.code = 200
    /\ del.pc = "done"
    /\ PublishFailed(del.calls)
    /\ del.calls[1].res = "publish_raised"
    /\ del.resp.code = 204
    /\ inventory[TheItem] = Deleted

\* -------------------------------------------------------------- broadcast

\* C16: a broadcast during which no client connects or disconnects does not
\* raise; when it ends, every registered connection was sent the message
\* once if its send succeeded and not at all otherwise, and the registered
\* connections are those whose send succeeded, in their original order.
C16_BroadcastRemovesBroken ==
    [][(ws.pc = "sending" /\ ws'.pc = "done")
       => LET Failed(w) == \E k \in 1..Len(ws.disconnected_clients) :
                              ws.disconnected_clients[k] = w
              Succeeded(w) == ~Failed(w)
          IN /\ ~ws'.raised
             /\ ws'.active = SelectSeq(ws.active, Succeeded)
             /\ \A k \in 1..Len(ws.active) :
                   ws'.delivered[ws.active[k]]
                     = IF Succeeded(ws.active[k]) THEN 1 ELSE 0
             /\ \A w \in Connections :
                   Failed(w) => \A k \in 1..Len(ws'.active) : ws'.active[k] # w]_vars

C16_Witness ==
    /\ ws.pc = "done"
    /\ ws.active = <<"w2", "w1">>
    /\ ws.disconnected_clients = <<"w3">>
    /\ ws.delivered = [w \in Connections |-> IF w = "w3" THEN 0 ELSE 1]

\* --------------------------------------------------------------- matching

\* the call under way is match_product with, as product_name, a variant of
\* the canonical name of product k
AsksFor(k) ==
    /\ svc.op = "match_product"
    /\ k \in 1..Len(svc.args.catalog)
    /\ svc.args.product_name \in Variants(svc.args.catalog[k])

\* the result is an exact match with a product named as product k is
ExactFor(k) ==
    /\ svc.result[1].found
    /\ svc.result[1].score = 100
    /\ svc.result[1].confidence = "exact"
    /\ Normalized(svc.args.catalog[svc.result[1].product])
         = Normalized(svc.args.catalog[k])

\* every letter of name has an upper case whose lower case is the letter's
CaseStable(name) ==
    \A k \in 1..Len(name) : Lower(Upper(name[k])) = Lower(name[k])

Returned ==
    IF svc.op = "match_all" THEN {svc.result[r] : r \in 1..Len(svc.result)}
    ELSE IF svc.op = "match_product" /\ svc.result[1].found THEN {svc.result[1]}
    ELSE {}

\* C18: every MatchResult returned by match_product or match_all, for any
\* min_score, has the tier of its score: EXACT from 100, HIGH from 75 to
\* below 100, MEDIUM from 60 to below 75, LOW from 50 to below 60, and no
\* tier below 50.
C18_TierFixedByScore ==
    \A m \in Returned : m.confidence = CalculateConfidenceFrom50(m.score)

\* C19: match_all returns at most limit results, in order of non-increasing
\* score, each with a score of at least min_score; no product left out
\* scores higher than a returned one, and something is returned when a
\* product reaches min_score; for a blank product_name or an empty catalog
\* it returns the empty list.
C19_MatchAllIsTopN ==
    svc.op = "match_all" =>
        LET a == svc.args
            r == svc.result
            blank == Strip(a.product_name) = <<>> \/ a.catalog = <<>>
        IN /\ Len(r) <= a.limit
           /\ \A i, j \in 1..Len(r) : i < j => r[i].score >= r[j].score
           /\ \A i \in 1..Len(r) :
                 /\ r[i].score >= a.min_score
                 /\ r[i].product \in 1..Len(a.catalog)
                 /\ r[i].score = a.wratio[a.catalog[r[i].product]]
           /\ \A k \in 1..Len(a.catalog) :
                 (~blank /\ \A i \in 1..Len(r) : r[i].product # k)
                 => \A i \in 1..Len(r) : a.wratio[a.catalog[k]] <= r[i].score
           /\ (~blank /\ \E k \in 1..Len(a.catalog) :
                            a.wratio[a.catalog[k]] >= a.min_score)
              => r # <<>>
           /\ blank => r = <<>>

\* ------------------------------------------------------------------- ocr

\* the extension of the file of the call under way, in lower case
ExtensionAsked ==
    LET suffix == Suffix(FileName(svc.args.file_path))
    IN [k \in 1..Len(suffix) |-> LowerPiece(suffix[k])]

\* C20: extract_text_from_receipt routes by the extension of the file, in
\* whatever letter case: .pdf calls the PDF extraction and nothing else,
\* .jpg, .jpeg, .png and .webp call the remote OCR and nothing else, and
\* any other extension, or none, raises the unsupported-file-type error
\* with no backend called.
C20_RoutesByExtension ==
    svc.op = "extract_text_from_receipt" =>
        LET r == svc.result[1]
        IN /\ ExtensionAsked = <<".", "pdf">>
                => r.calls = <<"_extract_from_pdf">> /\ r.raised # "ValueError"
           /\ ExtensionAsked \in {<<".", e>> : e \in {"jpg", "jpeg", "png", "webp"}}
                => r.calls = <<"_extract_from_image">> /\ r.raised # "ValueError"
           /\ ExtensionAsked \notin {<<".", e>> : e \in {"pdf", "jpg", "jpeg", "png", "webp"}}
                => r.calls = <<>> /\ r.raised = "ValueError"

C20_Witness ==
    /\ svc.op = "extract_text_from_receipt"
    /\ svc.args.file_path = <<"x", ".", "WebP">>
    /\ svc.result[1].calls = <<"_extract_from_image">>
    /\ svc.result[1].text = "text"

\* ------------------------------------------------------------ extraction

\* the content is not valid JSON, or a product in it lacks its name or has a
\* negative quantity
Unacceptable(content) ==
    \/ ~content.json
    \/ \E k \in 1..Len(content.products) :
          \/ content.products[k].name = Null
          \/ content.products[k].quantity < 0

\* C21: when the content of the LLM response is not valid JSON, or a product
\* in it lacks a required field or has a negative quantity, the extraction
\* raises and returns no product; the run that called it goes to its handler
\* and ends with the receipt failed, with ocr_structured and the item counts
\* as they were: none of the response's products is stored.
C21_ExtractionAllOrNothing ==
    [][\A r \in ProcReqs :
         /\ (/\ proc[r].pc = "llm"
             /\ proc'[r].content # <<>>
             /\ Unacceptable(proc'[r].content[1]))
            => /\ proc'[r].pc = "except"
               /\ proc'[r].extraction = <<>>
               /\ Last(proc'[r].calls).res = "raise"
               /\ receipt' = receipt
         /\ (/\ proc[r].pc = "except"
             /\ proc[r].content # <<>>
             /\ Unacceptable(proc[r].content[1])
             /\ proc'[r] # proc[r])
            => /\ proc'[r].pc = "done"
               /\ proc'[r].resp.success = FALSE
               /\ receipt'.processing_status = "failed"
               /\ receipt'.ocr_structured = receipt.ocr_structured
               /\ receipt'.items_extracted = receipt.items_extracted
               /\ receipt'.items_matched = receipt.items_matched]_vars

\* a run ended failed on a response whose first product is acceptable and
\* whose second has a negative quantity, after an earlier run had stored its
\* one product
C21_Witness ==
    /\ proc["p1"].pc = "done"
    /\ proc["p1"].content # <<>>
    /\ proc["p1"].content[1].json
    /\ Len(proc["p1"].content[1].products) = 2
    /\ proc["p1"].content[1].products[1] = [name |-> "milk", quantity |-> 1]
    /\ proc["p1"].content[1].products[2] = [name |-> "milk", quantity |-> -1]
    /\ receipt.processing_status = "failed"
    /\ receipt.items_extracted = 1

\* ------------------------------------------------------------ store chain

\* C22: a process run writes store_chain only when it ends in success, the
\* receipt had no store_chain and the extraction carries a nested chain; in
\* every other step, of a successful or a failed run, store_chain stays: a
\* receipt that has a store_chain keeps it.
C22_ChainWrittenOnlyWhenMissing ==
    [][/\ receipt'.store_chain # receipt.store_chain
          => /\ receipt.store_chain = Null
             /\ \E r \in ProcReqs :
                   /\ proc[r].pc = "match"
                   /\ proc'[r].pc = "done"
                   /\ proc'[r].resp.success
                   /\ proc[r].extraction[1].chain # Null
                   /\ receipt'.store_chain = proc[r].extraction[1].chain
       /\ receipt.store_chain # Null
          => receipt'.store_chain = receipt.store_chain]_vars

\* a run has ended in success on an extraction with a nested chain, and the
\* receipt still has the chain it was uploaded with
C22_Witness ==
    /\ proc["p1"].pc = "done"
    /\ proc["p1"].resp.success
    /\ receipt.ocr_structured # <<>>
    /\ receipt.ocr_structured[1].chain = "k-group"
    /\ receipt.store_chain = "s-group"

\* parsers/base.py 68-79 get_store_info().chain: the flat store_chain when
\* there is one, the nested store.chain otherwise
GetStoreInfoChain(e) == IF e.store_chain # Null THEN e.store_chain ELSE e.chain

\* C23: the chain a successful run leaves on a receipt that had none is
\* get_store_info().chain of its extraction: the flat store_chain when it is
\* present, the nested store.chain otherwise.
C23_FlatChainWins ==
    [][\A r \in ProcReqs :
         (/\ proc[r].pc = "match"
          /\ proc'[r].pc = "done"
          /\ proc'[r].resp.success
          /\ receipt.store_chain = Null)
         => receipt'.store_chain = GetStoreInfoChain(proc[r].extraction[1])]_vars

\* ------------------------------------------------------------- failed run

\* C30: a run that fails in its OCR, LLM or matching step changes nothing of
\* the receipt but processing_status: the step that fails changes nothing,
\* and the handler leaves ocr_raw_text, ocr_structured, items_extracted,
\* items_matched and store_chain as they were before the run.
C30_FailedRunKeepsResults ==
    [][\A r \in ProcReqs :
         /\ (/\ proc[r].pc \in {"ocr", "llm", "match"}
             /\ proc'[r].pc = "except")
            => receipt' = receipt
         /\ (proc[r].pc = "except" /\ proc'[r].pc = "done")
            => /\ receipt' = [receipt EXCEPT !.processing_status = "failed"]
               /\ \A f \in {"ocr_raw_text", "ocr_structured", "items_extracted",
                              "items_matched", "store_chain"} :
                     receipt'[f] = proc[r].sess[f]]_vars

\* a run that had the text textB from OCR has failed in its matching step,
\* and the receipt holds the results of the run before it
C30_Witness ==
    /\ proc["p1"].pc = "done"
    /\ ~proc["p1"].resp.success
    /\ Len(proc["p1"].calls) = 6
    /\ proc["p1"].calls[2].res = "textB"
    /\ proc["p1"].calls[5].res = "raise"
    /\ receipt.processing_status = "failed"
    /\ receipt.ocr_raw_text = "textA"
    /\ receipt.items_extracted = 1
    /\ receipt.store_chain = "k-group"

\* ------------------------------------------------------------ opened_date

\* C24: consume leaves opened_date as it was unless the call succeeds on an
\* item it read as sealed and leaves it with 0 < new_quantity <
\* initial_quantity; then it sets opened_date to today, and opened_date had
\* not been written before.  A call answered 404 or 400 changes nothing.
C24_OpenedDateSetOnce ==
    [][\A c \in ConsReqs :
         /\ (cons[c].pc = "commit" /\ cons'[c].pc = "done")
            => LET read == cons[c].loaded[1]
                   new_quantity == read.current_quantity - cons[c].q
                   opens == /\ cons'[c].resp.code = 200
                            /\ read.status = "sealed"
                            /\ 0 < new_quantity
                            /\ new_quantity < read.initial_quantity
               IN /\ opens => /\ inventory'[TheItem].opened_date = Today
                              /\ inventory[TheItem].opened_date = NoDate
                  /\ ~opens => inventory'[TheItem].opened_date
                                  = inventory[TheItem].opened_date
         /\ (cons[c].pc \in {"idle", "done"} /\ cons'[c] # cons[c])
            => inventory' = inventory]_vars

\* a second consume has succeeded on an item the first one had opened
C24_Witness ==
    /\ ItemExists
    /\ inventory[TheItem].opened_date = Today
    /\ inventory[TheItem].status = "partial"
    /\ inventory[TheItem].initial_quantity = MaxQty
    /\ inventory[TheItem].current_quantity = 1
    /\ consumed = 3
    /\ cons["c1"].pc = "done"
    /\ cons["c1"].q = 1
    /\ cons["c1"].resp.code = 200

\* C25: when a broadcast ends, every connection that was registered when it
\* began and has been since, and whose send did not fail, was sent the
\* message exactly once, whatever other clients connected or disconnected
\* meanwhile.
C25_NoSubscriberSkipped ==
    [][(ws.pc = "sending" /\ ws'.pc = "done")
       => \A w \in ws.stayed :
             (\A k \in 1..Len(ws.disconnected_clients) :
                 ws.disconnected_clients[k] # w)
             => ws'.delivered[w] = 1]_vars

\* ------------------------------------------------------------ idempotence

\* C26: a confirm of a receipt that is already confirmed adds no inventory
\* row.
C26_ConfirmIsIdempotent ==
    [][\A f \in ConfReqs :
         (/\ conf[f].pc = "items"
          /\ conf[f].sess.processing_status = "confirmed"
          /\ receipt.processing_status = "confirmed")
         => inventory' = inventory]_vars

\* ------------------------------------------------------ commit, then event

\* the log c holds a publication, and before it no commit
PublishedUncommitted(c) ==
    \E k \in 1..Len(c) :
        c[k].op = "publish" /\ \A j \in 1..(k - 1) : c[j].op # "commit"

\* C27: a request publishes its event only after its commit: when the
\* confirmed event is handed to publish_message the receipt is confirmed and
\* the request's rows are in the table (another request may have consumed
\* from them since), when the consumed event is handed
\* over the item has the new quantity and status; in no log does a
\* publication come before the commit, and a confirm or a consume that ends
\* in 404 or 400 has published nothing.
C27_EventAfterCommit ==
    /\ [](/\ \A f \in ConfReqs :
              /\ ~PublishedUncommitted(conf[f].calls)
              /\ (conf[f].pc = "done" /\ conf[f].resp.code \in {400, 404})
                 => conf[f].calls = <<>>
          /\ \A c \in ConsReqs :
              /\ ~PublishedUncommitted(cons[c].calls)
              /\ (cons[c].pc = "done" /\ cons[c].resp.code \in {400, 404})
                 => cons[c].calls = <<>>)
    /\ [][/\ \A f \in ConfReqs :
              (PublishedIn(conf'[f].calls, ReceiptStatusMessage(conf[f].rid, "confirmed"))
               /\ ~PublishedIn(conf[f].calls, ReceiptStatusMessage(conf[f].rid, "confirmed")))
              => /\ receipt.processing_status = "confirmed"
                 /\ Len(inventory) >= Len(conf[f].pending)
                 /\ \A k \in 1..Len(conf[f].pending) :
                       LET row == inventory[Len(inventory) - Len(conf[f].pending) + k]
                       IN /\ row.receipt_id = conf[f].rid
                          /\ row.product_master_id = conf[f].pending[k].product_master_id
                          /\ row.initial_quantity = conf[f].pending[k].initial_quantity
          /\ \A c \in ConsReqs :
              (PublishedIn(cons'[c].calls, InventoryUpdateMessage(TheItem, "consumed"))
               /\ ~PublishedIn(cons[c].calls, InventoryUpdateMessage(TheItem, "consumed")))
              => /\ inventory[TheItem].current_quantity
                      = cons[c].sess[1].current_quantity
                 /\ inventory[TheItem].status = cons[c].sess[1].status]_vars

\* a confirm has published after its commit, a consume has published after
\* its own, and the publication of the consume failed
C27_Witness ==
    /\ \E f \in ConfReqs :
          /\ conf[f].pc = "done"
          /\ Len(conf[f].calls) = 2
          /\ conf[f].calls[1].op = "commit"
          /\ conf[f].calls[2].op = "publish"
    /\ cons["c1"].pc = "done"
    /\ Len(cons["c1"].calls) = 2
    /\ cons["c1"].calls[1].op = "commit"
    /\ cons["c1"].calls[2].res = "no_client"
    /\ receipt.processing_status = "confirmed"
    /\ inventory[TheItem].status = "opened"

\* ----------------------------------------------------------- non-negative

\* C28: under every interleaving of consume calls (each of a quantity above
\* zero) and update calls on an item, the committed current_quantity is at
\* least 0.
C28_QuantityNeverNegative ==
    \A i \in 1..Len(inventory) : inventory[i].current_quantity >= 0

\* two consumes of all but 1 have read the full item and both have
\* committed: more was taken than there was, and 1 is left
C28_Witness ==
    /\ ItemExists
    /\ inventory[TheItem].initial_quantity = MaxQty
    /\ inventory[TheItem].current_quantity = 1
    /\ consumed = 2 * (MaxQty - 1)
    /\ \A c \in ConsReqs :
          cons[c].pc = "done" /\ cons[c].resp.code = 200 /\ cons[c].q = MaxQty - 1

\* ----------------------------------------------------------------- upload

\* C29: every upload answered 201 is stored under a path that
\* extract_text_from_receipt routes to a backend: processing it does not
\* fail with the unsupported-file-type error.
C29_AcceptedUploadIsSupported ==
    (svc.op = "upload_receipt" /\ svc.result[1].code = 201)
    => ExtractTextFromReceipt(svc.result[1].image_path, "text").raised # "ValueError"

TypeOK == receipt.processing_status \in ReceiptStatuses

====
